---- MODULE Spec2Model ----
(***************************************************************************)
(* A model of the preset/tokenizer glue of keras_nlp:                      *)
(*   - MistralTokenizer.set_proto     (models/mistral/mistral_tokenizer.py)*)
(*   - Task / Preprocessor presets and from_preset  (models/task.py,       *)
(*     models/preprocessor.py)                                             *)
(*   - Task weight partitioning and persistence      (models/task.py)      *)
(* Python's None is the empty tuple <<>>, a present value x is <<x>>.      *)
(***************************************************************************)
EXTENDS Integers, Sequences, FiniteSets, TLC

VARIABLES
    \* ---- MistralTokenizer instance
    proto,            \* the vocabulary the tokenizer holds: None or <<v>>
    start_token_id,   \* None or <<id>>
    end_token_id,     \* None or <<id>>
    arg,              \* the argument of the latest set_proto call
    before,           \* None, or <<the tokenizer's fields before that call>>
    raised,           \* None, or <<token>>: the ValueError of the latest call
    \* ---- class registry under one abstract base
    base,             \* "Task" or "Preprocessor": the abstract base, class 1
    classes,          \* registered classes in registration order
    own,              \* own[c]: the presets registered directly on class c
    lastRead,         \* the latest `presets` read since the registry changed,
                      \* with the registered presets it started from
    result,           \* the latest from_preset call since the registry changed
    \* ---- Task instance
    weights,          \* identities of the task's weight tensors (self.weights)
    preprocessor,     \* None or <<preprocessor>>
    disk,             \* every file written so far
    call,             \* the latest call since the task changed (with the
                      \* disk it started from), or None
    steps,            \* the writes of the latest call, in order
    error,            \* None, or <<message>>: the ValueError of the latest call
    values,           \* values[w]: the value weight tensor w holds
    returned          \* None, or <<b>>: what the latest has_task_weights()
                      \* call returned

tokVars == <<proto, start_token_id, end_token_id, arg, before, raised>>

regVars == <<base, classes, own, lastRead, result>>

taskVars ==
    <<weights, preprocessor, disk, call, steps, error, values, returned>>

vars == <<tokVars, regVars, taskVars>>

None == <<>>

Some(x) == <<x>>

(***************************************************************************)
(* MistralTokenizer                                                        *)
(***************************************************************************)

\* Longest vocabulary explored.
MaxVocabLen == 3

start_token == "<s>"

end_token == "</s>"

Tokens == {start_token, end_token, "hi", "<unk>"}

RECURSIVE RangeOf(_)
RangeOf(s) == IF s = <<>> THEN {} ELSE {Head(s)} \cup RangeOf(Tail(s))

\* A vocabulary is a list of distinct pieces; a piece's id is its position,
\* counted from 0.
Vocabularies ==
    { v \in UNION { [1..n -> Tokens] : n \in 1..MaxVocabLen } :
        \A i, j \in DOMAIN v : v[i] = v[j] => i = j }

\* SentencePieceTokenizer.get_vocabulary(): the pieces of the held vocabulary.
get_vocabulary(p) == IF p = None THEN {} ELSE RangeOf(p[1])

\* SentencePieceTokenizer.token_to_id(token) on the held vocabulary.
token_to_id(p, token) == (CHOOSE i \in DOMAIN p[1] : p[1][i] = token) - 1

\* SentencePieceTokenizer.set_proto(proto): None clears the held vocabulary,
\* anything else is loaded and replaces it.
super_set_proto(p) == p

\* The loop of set_proto: the first required token the held vocabulary lacks,
\* None when it has both.
MissingToken(p) ==
    IF start_token \notin get_vocabulary(p) THEN Some(start_token)
    ELSE IF end_token \notin get_vocabulary(p) THEN Some(end_token)
    ELSE None

ResolvedIds_Swapped(p) ==
    [start |-> Some(token_to_id(p, end_token)),
     end   |-> Some(token_to_id(p, start_token))]

\* The two assignments after the loop.
ResolvedIds(p) ==
    [start |-> Some(token_to_id(p, start_token)),
     end   |-> Some(token_to_id(p, end_token))]

ClearedIds_StartOnly == [start |-> None, end |-> end_token_id]

\* The else branch: both ids are reset.
ClearedIds == [start |-> None, end |-> None]

\* MistralTokenizer.set_proto(proto), the whole method.  The vocabulary is
\* installed by the superclass before the required tokens are looked for; the
\* raise leaves the method before either id is assigned.
set_proto(p) ==
    /\ arg' = p
    /\ before' = Some([proto |-> proto, start_token_id |-> start_token_id,
                       end_token_id |-> end_token_id, raised |-> raised])
    /\ proto' = super_set_proto(p)
    /\ IF p # None
       THEN IF MissingToken(proto') # None
            THEN /\ raised' = MissingToken(proto')
                 /\ UNCHANGED <<start_token_id, end_token_id>>
            ELSE /\ raised' = None
                 /\ start_token_id' = ResolvedIds(proto').start
                 /\ end_token_id' = ResolvedIds(proto').end
       ELSE /\ raised' = None
            /\ start_token_id' = ClearedIds.start
            /\ end_token_id' = ClearedIds.end

Protos == {None} \cup { Some(v) : v \in Vocabularies }

\* MistralTokenizer.__init__(proto): the constructor runs set_proto(proto); a
\* vocabulary that lacks a required token raises out of the constructor and
\* yields no tokenizer, so an instance starts cleared or validly configured.
TokInit ==
    /\ proto \in {None} \cup { p \in Protos \ {None} : MissingToken(p) = None }
    /\ arg = proto
    /\ before = None
    /\ raised = None
    /\ start_token_id = (IF proto = None THEN None ELSE ResolvedIds(proto).start)
    /\ end_token_id = (IF proto = None THEN None ELSE ResolvedIds(proto).end)

SetProto == \E p \in Protos : set_proto(p)

\* A tokenizer constructed with proto=None.
TokIdle ==
    /\ proto = None
    /\ arg = None
    /\ before = None
    /\ raised = None
    /\ start_token_id = None
    /\ end_token_id = None

(***************************************************************************)
(* Class registry: subclasses, registered presets, preset enumeration      *)
(***************************************************************************)

\* Most classes registered, the abstract base included.
MaxClasses == 3

\* Most presets registered on the classes together.
MaxRegs == 2

Families == {"Bert", "DistilBert"}

PresetKeys == {"bert_base", "distil_base"}

Metadata == {"m1", "m2"}

EmptyMap == [k \in {} |-> "m1"]

RootId == 1

ClassIds == 1..Len(classes)

\* The abstract base: `backbone_cls = None`, `tokenizer_cls = None`.
RootClass == [parent |-> 0, backbone_cls |-> None, tokenizer_cls |-> None]

RECURSIVE IsSubclass(_, _)
\* issubclass(s, c) and s != c
IsSubclass(s, c) ==
    /\ s # c
    /\ classes[s].parent # 0
    /\ \/ classes[s].parent = c
       \/ IsSubclass(classes[s].parent, c)

\* list_subclasses(cls): every registered strict subclass, in registration
\* order.
list_subclasses(c) ==
    SelectSeq([i \in ClassIds |-> i], LAMBDA s : IsSubclass(s, c))

\* list_presets(cls): a fresh copy of the presets registered on cls itself.
list_presets(c) == own[c]

\* The presets of a family's backbone class.
BackbonePresets(f) ==
    IF f = "Bert" THEN [k \in {"bert_base"} |-> "m1"]
    ELSE [k \in {"distil_base"} |-> "m1"]

\* The presets of a family's tokenizer class.
TokenizerPresets(f) ==
    IF f = "Bert" THEN [k \in {"bert_base"} |-> "m1"]
    ELSE [k \in {"distil_base"} |-> "m1"]

Update_KeepExisting(m1, m2) ==
    [k \in DOMAIN m1 \cup DOMAIN m2 |->
        IF k \in DOMAIN m1 THEN m1[k] ELSE m2[k]]

\* presets.update(other): dict.update, the value of `other` replaces the
\* value of a key already present.
Update(m1, m2) ==
    [k \in DOMAIN m1 \cup DOMAIN m2 |->
        IF k \in DOMAIN m2 THEN m2[k] ELSE m1[k]]

RECURSIVE UpdateAll(_, _)
\* The loop `for subclass in ...: presets.update(subclass.presets)`.
UpdateAll(m, others) ==
    IF others = <<>> THEN m
    ELSE UpdateAll(Update(m, Head(others)), Tail(others))

RECURSIVE TaskPresets(_)
TaskPresets_NoSubclasses(c) ==
    IF classes[c].backbone_cls # None
    THEN Update(list_presets(c), BackbonePresets(classes[c].backbone_cls[1]))
    ELSE list_presets(c)

\* Task.presets
TaskPresets(c) ==
    LET presets0 == list_presets(c)
        presets1 ==
            IF classes[c].backbone_cls # None
            THEN Update(presets0, BackbonePresets(classes[c].backbone_cls[1]))
            ELSE presets0
        subs == list_subclasses(c)
    IN  UpdateAll(presets1, [i \in DOMAIN subs |-> TaskPresets(subs[i])])

RECURSIVE PreprocessorPresets(_)
\* Preprocessor.presets
PreprocessorPresets(c) ==
    LET presets0 == list_presets(c)
        presets1 ==
            IF classes[c].tokenizer_cls # None
            THEN Update(presets0, TokenizerPresets(classes[c].tokenizer_cls[1]))
            ELSE presets0
        subs == list_subclasses(c)
    IN  UpdateAll(presets1, [i \in DOMAIN subs |-> PreprocessorPresets(subs[i])])

\* cls.presets on a class of the hierarchy
presets(c) == IF base = "Task" THEN TaskPresets(c) ELSE PreprocessorPresets(c)

\* `class S(P)`, optionally declaring a family: an undeclared backbone_cls
\* (tokenizer_cls) is inherited from the parent.  Preprocessor classes
\* declare their tokenizer class with their backbone class.
DefineSubclass(par, decl) ==
    /\ Len(classes) < MaxClasses
    /\ classes' = Append(classes,
          [parent |-> par,
           backbone_cls |->
               IF decl = None THEN classes[par].backbone_cls ELSE decl,
           tokenizer_cls |->
               IF base = "Task" THEN None
               ELSE IF decl = None THEN classes[par].tokenizer_cls ELSE decl])
    /\ own' = Append(own, EmptyMap)
    /\ lastRead' = None
    /\ result' = None
    /\ UNCHANGED base

\* register_presets({key: metadata}, [cls])
RegisterPreset(c, k, m) ==
    /\ own' = [own EXCEPT ![c] = Update(own[c], [x \in {k} |-> m])]
    /\ lastRead' = None
    /\ result' = None
    /\ UNCHANGED <<base, classes>>

\* Reading Task.presets on class c.
ReadTaskPresets(c) ==
    /\ base = "Task"
    /\ lastRead' = Some([cls |-> c, value |-> TaskPresets(c), registered |-> own])
    /\ UNCHANGED <<base, classes, own, result>>

\* Reading Preprocessor.presets on class c.
ReadPreprocessorPresets(c) ==
    /\ base = "Preprocessor"
    /\ lastRead' = Some([cls |-> c, value |-> PreprocessorPresets(c), registered |-> own])
    /\ UNCHANGED <<base, classes, own, result>>

(***************************************************************************)
(* from_preset: class detection                                            *)
(***************************************************************************)

PresetIds == {"bert_tiny_en", "hf://distilbert/distilbert-base-uncased", "./nowhere"}

\* get_preset_loader(preset): a loader exists for a preset that can be
\* located; for any other preset the call raises.
HasLoader(p) == p # "./nowhere"

\* loader.check_backbone_class(): the family the preset's configuration
\* document declares.
check_backbone_class(p) == IF p = "bert_tiny_en" THEN "Bert" ELSE "DistilBert"

\* find_subclass(preset, cls, backbone_cls): the registered subclasses of cls
\* whose backbone_cls is the preset's; none is an error, and which of several
\* is returned is not defined.
find_subclass(c, f) ==
    { s \in ClassIds : IsSubclass(s, c) /\ classes[s].backbone_cls = Some(f) }

Called(kind, c, p, outcome, loader, metadata, instance) ==
    Some([kind |-> kind, cls |-> c, preset |-> p, outcome |-> outcome,
          loader |-> loader, metadata |-> metadata, instance |-> instance])

TaskIsBase_Never(c) == FALSE

\* `cls == Task`
TaskIsBase(c) == c = RootId

TaskDetect_Skipped(c, f) == {c}

\* Task.from_preset, "Detect the correct subclass if we need to."
TaskDetect(c, f) ==
    IF classes[c].backbone_cls # Some(f) THEN find_subclass(c, f) ELSE {c}

\* Task.from_preset(preset) called on class c; loader.load_task(cls, ...)
\* constructs an instance of the class it is given.
TaskFromPreset(c, p) ==
    /\ base = "Task"
    /\ UNCHANGED <<base, classes, own, lastRead>>
    /\ IF TaskIsBase(c)
       THEN result' = Called("Task", c, p, "UsageError", FALSE, FALSE, None)
       ELSE IF ~HasLoader(p)
       THEN result' = Called("Task", c, p, "LoaderError", FALSE, FALSE, None)
       ELSE LET found == TaskDetect(c, check_backbone_class(p))
            IN  IF found = {}
                THEN result' = Called("Task", c, p, "UnsupportedPresetError",
                                      TRUE, TRUE, None)
                ELSE \E s \in found :
                        result' = Called("Task", c, p, "instance",
                                         TRUE, TRUE, Some(s))

\* `cls == Preprocessor`
PreprocessorIsBase(c) == c = RootId

\* Preprocessor.from_preset, "Detect the correct subclass if we need to."
PreprocessorDetect(c, f) ==
    IF classes[c].backbone_cls # Some(f) THEN find_subclass(c, f) ELSE {c}

\* Preprocessor.from_preset(preset) called on class c;
\* loader.load_preprocessor(cls, ...) constructs an instance of the class it
\* is given.
PreprocessorFromPreset(c, p) ==
    /\ base = "Preprocessor"
    /\ UNCHANGED <<base, classes, own, lastRead>>
    /\ IF PreprocessorIsBase(c)
       THEN result' = Called("Preprocessor", c, p, "UsageError",
                             FALSE, FALSE, None)
       ELSE IF ~HasLoader(p)
       THEN result' = Called("Preprocessor", c, p, "LoaderError",
                             FALSE, FALSE, None)
       ELSE LET found == PreprocessorDetect(c, check_backbone_class(p))
            IN  IF found = {}
                THEN result' = Called("Preprocessor", c, p,
                                      "UnsupportedPresetError", TRUE, TRUE, None)
                ELSE \E s \in found :
                        result' = Called("Preprocessor", c, p, "instance",
                                         TRUE, TRUE, Some(s))

RegInit ==
    /\ base \in {"Task", "Preprocessor"}
    /\ classes = <<RootClass>>
    /\ own = <<EmptyMap>>
    /\ lastRead = None
    /\ result = None

\* The number of presets registered on the classes.
RegCount ==
    LET RECURSIVE Sum(_)
        Sum(i) == IF i = 0 THEN 0 ELSE Cardinality(DOMAIN own[i]) + Sum(i - 1)
    IN  Sum(Len(own))

Define ==
    \E par \in ClassIds, decl \in {None} \cup {Some(f) : f \in Families} :
        DefineSubclass(par, decl)

Register ==
    /\ RegCount < MaxRegs
    /\ \E c \in ClassIds, k \in PresetKeys, m \in Metadata :
          RegisterPreset(c, k, m)

ReadPresets ==
    \E c \in ClassIds : ReadTaskPresets(c) \/ ReadPreprocessorPresets(c)

FromPreset ==
    \E c \in ClassIds, p \in PresetIds :
        TaskFromPreset(c, p) \/ PreprocessorFromPreset(c, p)

(***************************************************************************)
(* Task: weight partitioning and persistence.  Paths are tuples of         *)
(* characters.                                                             *)
(***************************************************************************)

WEIGHTS_SUFFIX == <<".", "w", "e", "i", "g", "h", "t", "s", ".", "h", "5">>

TASK_CONFIG_FILE == <<"t", "a", "s", "k", ".", "j", "s", "o", "n">>

TASK_WEIGHTS_FILE == <<"t", "a", "s", "k">> \o WEIGHTS_SUFFIX

PREPROCESSOR_CONFIG_FILE == <<"p", "r", "e", "p", ".", "j", "s", "o", "n">>

TOKENIZER_ASSETS == <<"a", "s", "s", "e", "t", "s">>

BACKBONE_CONFIG_FILE == <<"c", "o", "n", "f", "i", "g", ".", "j", "s", "o", "n">>

BACKBONE_WEIGHTS_FILE == <<"m", "o", "d", "e", "l">> \o WEIGHTS_SUFFIX

\* Paths handed to save_task_weights:
\*   "weights.bin", "head.weights.h5", "weights.h5", "a.weights.h5.bak"
WeightPaths ==
    { <<"w", "e", "i", "g", "h", "t", "s", ".", "b", "i", "n">>,
      <<"h", "e", "a", "d">> \o WEIGHTS_SUFFIX,
      <<"w", "e", "i", "g", "h", "t", "s", ".", "h", "5">>,
      <<"a">> \o WEIGHTS_SUFFIX \o <<".", "b", "a", "k">> }

PresetDirs == { <<"d">>, <<"e">> }

\* str.endswith
EndsWith(s, suffix) ==
    /\ Len(s) >= Len(suffix)
    /\ SubSeq(s, Len(s) - Len(suffix) + 1, Len(s)) = suffix

\* os.path.join
PathJoin(dir, file) == dir \o <<"/">> \o file

\* self.backbone.weights
BackboneWeights == {"b1", "b2"}

\* Weights a head layer on top of the backbone brings.
HeadWeights == {"h1", "h2"}

SuffixError == "The filename must end in .weights.h5"

NothingToSaveError == "save_task_weights() has nothing to save"

NoPreprocessorError == "Preprocessor is not initialized"

\* keras.saving.load_weights: a visited layer's variables are not in the file.
MismatchError == "the file lacks variables the layer expects"

\* Every weight tensor a task over this backbone can hold.
WeightIds == BackboneWeights \cup HeadWeights

WeightValues == {0, 1}

\* The objects of the task: the task itself, its backbone with the layers
\* nested in it, and the head layers.  The first head layer is tied to the
\* backbone's embedding layer, which it holds a reference to.
HeadLayers == {"head1", "head2"}

OwnWeights(obj) ==
    CASE obj = "embed" -> {"b1"}
      [] obj = "encoder" -> {"b2"}
      [] obj = "head1" -> {"h1"}
      [] obj = "head2" -> {"h2"}
      [] OTHER -> {}

Children(obj) ==
    CASE obj = "task" ->
             {"backbone"} \cup { l \in HeadLayers : OwnWeights(l) \subseteq weights }
      [] obj = "backbone" -> {"embed", "encoder"}
      [] obj = "head1" -> {"embed"}
      [] OTHER -> {}

\* Layer._flatten_layers(): the layer itself and every layer nested in it.
RECURSIVE flatten_layers(_)
flatten_layers(obj) ==
    {obj} \cup UNION { flatten_layers(c) : c \in Children(obj) }

backbone_layer_ids_SelfOnly == {"backbone"}

\* set(id(w) for w in self.backbone._flatten_layers())
backbone_layer_ids == flatten_layers("backbone")

\* The weights keras.saving.load_weights assigns: it walks the objects from
\* the model down, and neither loads nor descends into an object whose
\* identity is in objects_to_skip.
RECURSIVE Visited(_, _)
Visited(obj, objects_to_skip) ==
    IF obj \in objects_to_skip
    THEN {}
    ELSE OwnWeights(obj)
         \cup UNION { Visited(c, objects_to_skip) : c \in Children(obj) }

has_task_weights_ByValue ==
    ~({ values[w] : w \in weights } \subseteq { values[w] : w \in BackboneWeights })

\* Task.has_task_weights()
has_task_weights == ~(weights \subseteq BackboneWeights)

Wrote(what, path) == [what |-> what, path |-> path]

Outcome(err, writes) == [error |-> err, writes |-> writes]

save_task_weights_HeadCheckFirst(filepath) ==
    IF ~has_task_weights
    THEN Outcome(Some(NothingToSaveError), <<>>)
    ELSE IF ~EndsWith(filepath, WEIGHTS_SUFFIX)
    THEN Outcome(Some(SuffixError), <<>>)
    ELSE Outcome(None, <<Wrote("task_weights", filepath)>>)

\* Task.save_task_weights(filepath): what it raises and what it writes.
save_task_weights(filepath) ==
    IF ~EndsWith(filepath, WEIGHTS_SUFFIX)
    THEN Outcome(Some(SuffixError), <<>>)
    ELSE IF ~has_task_weights
    THEN Outcome(Some(NothingToSaveError), <<>>)
    ELSE Outcome(None, <<Wrote("task_weights", filepath)>>)

\* save_serialized_object(obj, preset_dir, config_file): writes the object's
\* configuration document into the directory.
save_serialized_object(what, preset_dir, config_file) ==
    <<Wrote(what, PathJoin(preset_dir, config_file))>>

\* Preprocessor.save_to_preset(preset_dir); every Preprocessor subclass sets
\* its tokenizer on construction.
preprocessor_save_to_preset(preset_dir) ==
    save_serialized_object("preprocessor_config", preset_dir,
                           PREPROCESSOR_CONFIG_FILE)
    \o <<Wrote("tokenizer_assets", PathJoin(preset_dir, TOKENIZER_ASSETS))>>

\* Backbone.save_to_preset(preset_dir): the backbone's configuration and
\* weights.
backbone_save_to_preset(preset_dir) ==
    save_serialized_object("backbone_config", preset_dir, BACKBONE_CONFIG_FILE)
    \o <<Wrote("backbone_weights", PathJoin(preset_dir, BACKBONE_WEIGHTS_FILE))>>

save_to_preset_AlwaysWeights(preset_dir) ==
    IF preprocessor = None
    THEN Outcome(Some(NoPreprocessorError), <<>>)
    ELSE LET config == save_serialized_object("task_config", preset_dir,
                                              TASK_CONFIG_FILE)
             w == save_task_weights(PathJoin(preset_dir, TASK_WEIGHTS_FILE))
         IN  IF w.error # None
             THEN Outcome(w.error, config)
             ELSE Outcome(None, config \o w.writes
                                \o preprocessor_save_to_preset(preset_dir)
                                \o backbone_save_to_preset(preset_dir))

save_to_preset_LateCheck(preset_dir) ==
    LET config == save_serialized_object("task_config", preset_dir,
                                         TASK_CONFIG_FILE)
        w == IF has_task_weights
             THEN save_task_weights(PathJoin(preset_dir, TASK_WEIGHTS_FILE))
             ELSE Outcome(None, <<>>)
    IN  IF w.error # None
        THEN Outcome(w.error, config)
        ELSE IF preprocessor = None
        THEN Outcome(Some(NoPreprocessorError), config \o w.writes)
        ELSE Outcome(None, config \o w.writes
                           \o preprocessor_save_to_preset(preset_dir)
                           \o backbone_save_to_preset(preset_dir))

\* Task.save_to_preset(preset_dir): what it raises and what it writes, in
\* order.  An error raised by save_task_weights leaves the method after the
\* task's configuration was written.
save_to_preset(preset_dir) ==
    IF preprocessor = None
    THEN Outcome(Some(NoPreprocessorError), <<>>)
    ELSE LET config == save_serialized_object("task_config", preset_dir,
                                              TASK_CONFIG_FILE)
             w == IF has_task_weights
                  THEN save_task_weights(PathJoin(preset_dir, TASK_WEIGHTS_FILE))
                  ELSE Outcome(None, <<>>)
         IN  IF w.error # None
             THEN Outcome(w.error, config)
             ELSE Outcome(None, config \o w.writes
                                \o preprocessor_save_to_preset(preset_dir)
                                \o backbone_save_to_preset(preset_dir))

\* The effect of a save call on the task and the disk.
Perform(op, path, outcome) ==
    /\ call' = Some([op |-> op, path |-> path, disk |-> disk])
    /\ error' = outcome.error
    /\ steps' = outcome.writes
    /\ disk' = disk \cup RangeOf(outcome.writes)
    /\ returned' = None
    /\ UNCHANGED <<weights, preprocessor, values>>

SaveTaskWeights ==
    \E filepath \in WeightPaths :
        Perform("save_task_weights", filepath, save_task_weights(filepath))

SaveToPreset ==
    \E preset_dir \in PresetDirs :
        Perform("save_to_preset", preset_dir, save_to_preset(preset_dir))

\* The content of a weights file: the value stored for each weight it holds.
FileContents == UNION { [K -> WeightValues] : K \in SUBSET WeightIds }

\* Paths handed to load_task_weights: "head.weights.h5", "weights.bin"
LoadPaths ==
    { <<"h", "e", "a", "d">> \o WEIGHTS_SUFFIX,
      <<"w", "e", "i", "g", "h", "t", "s", ".", "b", "i", "n">> }

\* Task.load_task_weights(filepath) on a file of the given content: the
\* outcomes the call can have, each the error raised and the weights
\* assigned.  A file that lacks a visited layer's variables makes the loader
\* raise at that layer, after the layers visited before it were loaded.
load_task_weights(filepath, content) ==
    IF ~EndsWith(filepath, WEIGHTS_SUFFIX)
    THEN { [error |-> Some(SuffixError), loaded |-> {}] }
    ELSE LET targets == Visited("task", backbone_layer_ids)
         IN  IF targets \subseteq DOMAIN content
             THEN { [error |-> None, loaded |-> targets] }
             ELSE { [error |-> Some(MismatchError), loaded |-> part] :
                        part \in SUBSET (targets \cap DOMAIN content) }

LoadTaskWeights ==
    \E filepath \in LoadPaths, content \in FileContents :
        \E o \in load_task_weights(filepath, content) :
            /\ values' = [w \in WeightIds |->
                              IF w \in o.loaded THEN content[w] ELSE values[w]]
            /\ call' = Some([op |-> "load_task_weights", path |-> filepath,
                             disk |-> disk, content |-> content,
                             values |-> values])
            /\ error' = o.error
            /\ steps' = <<>>
            /\ returned' = None
            /\ UNCHANGED <<weights, preprocessor, disk>>

\* `task.has_task_weights()`
HasTaskWeights ==
    /\ returned' = Some(has_task_weights)
    /\ call' = Some([op |-> "has_task_weights", path |-> <<>>, disk |-> disk])
    /\ error' = None
    /\ steps' = <<>>
    /\ UNCHANGED <<weights, preprocessor, disk, values>>

\* A head layer with its own weight is added on top of the backbone.
AddHeadLayer ==
    \E w \in HeadWeights \ weights :
        /\ weights' = weights \cup {w}
        /\ call' = None
        /\ error' = None
        /\ steps' = <<>>
        /\ returned' = None
        /\ UNCHANGED <<preprocessor, disk, values>>

\* `task.preprocessor = value`
SetPreprocessor ==
    \E value \in {None, Some("preprocessor")} :
        /\ preprocessor' = value
        /\ call' = None
        /\ error' = None
        /\ steps' = <<>>
        /\ returned' = None
        /\ UNCHANGED <<weights, disk, values>>

\* A task constructed from a backbone alone, with or without a preprocessor.
TaskInit ==
    /\ weights = BackboneWeights
    /\ preprocessor \in {None, Some("preprocessor")}
    /\ disk = {}
    /\ call = None
    /\ steps = <<>>
    /\ error = None
    /\ values = [w \in WeightIds |-> 0]
    /\ returned = None

TaskIdle == TaskInit /\ preprocessor = None

\* A task constructed from a backbone alone, whatever values its weights and
\* those of the head layers to come are initialised with.
WeightsInit ==
    /\ weights = BackboneWeights
    /\ preprocessor = None
    /\ disk = {}
    /\ call = None
    /\ steps = <<>>
    /\ error = None
    /\ values \in [WeightIds -> WeightValues]
    /\ returned = None

Init == TokInit /\ RegInit /\ TaskInit

TokStep == SetProto /\ UNCHANGED <<regVars, taskVars>>

DefineStep == Define /\ UNCHANGED <<tokVars, taskVars>>

RegisterStep == Register /\ UNCHANGED <<tokVars, taskVars>>

ReadPresetsStep == ReadPresets /\ UNCHANGED <<tokVars, taskVars>>

FromPresetStep == FromPreset /\ UNCHANGED <<tokVars, taskVars>>

SaveTaskWeightsStep == SaveTaskWeights /\ UNCHANGED <<tokVars, regVars>>

SaveToPresetStep == SaveToPreset /\ UNCHANGED <<tokVars, regVars>>

AddHeadLayerStep == AddHeadLayer /\ UNCHANGED <<tokVars, regVars>>

SetPreprocessorStep == SetPreprocessor /\ UNCHANGED <<tokVars, regVars>>

HasTaskWeightsStep == HasTaskWeights /\ UNCHANGED <<tokVars, regVars>>

LoadTaskWeightsStep == LoadTaskWeights /\ UNCHANGED <<tokVars, regVars>>

RegIdle == RegInit /\ base = "Task"

NextTokenizer == TokStep

InitTokenizer == TokInit /\ RegIdle /\ TaskIdle

SpecTokenizer == InitTokenizer /\ [][NextTokenizer]_vars

NextPresets == DefineStep \/ RegisterStep \/ ReadPresetsStep

InitPresets == TokIdle /\ RegInit /\ TaskIdle

SpecPresets == InitPresets /\ [][NextPresets]_vars

NextResolver == DefineStep \/ FromPresetStep

InitResolver == TokIdle /\ RegInit /\ TaskIdle

SpecResolver == InitResolver /\ [][NextResolver]_vars

NextTask ==
    \/ SaveTaskWeightsStep
    \/ SaveToPresetStep
    \/ AddHeadLayerStep
    \/ SetPreprocessorStep

InitTask == TokIdle /\ RegIdle /\ TaskInit

SpecTask == InitTask /\ [][NextTask]_vars

NextWeights ==
    \/ AddHeadLayerStep
    \/ HasTaskWeightsStep
    \/ LoadTaskWeightsStep

InitWeights == TokIdle /\ RegIdle /\ WeightsInit

SpecWeights == InitWeights /\ [][NextWeights]_vars

Next ==
    \/ NextTokenizer
    \/ NextPresets
    \/ NextResolver
    \/ NextTask
    \/ NextWeights

Spec == Init /\ [][Next]_vars

(***************************************************************************)
(* Properties of MistralTokenizer.set_proto, under SpecTokenizer           *)
(***************************************************************************)

\* The ids of the required tokens in the vocabulary last handed to
\* set_proto, read off the vocabulary itself.
HasPiece(v, token) == \E i \in DOMAIN v : v[i] = token

IdIs(v, token, id) == \E i \in DOMAIN v : v[i] = token /\ id = Some(i - 1)

LacksRequired(v) == ~HasPiece(v, "<s>") \/ ~HasPiece(v, "</s>")

\* C1: after set_proto(V) with V lacking "<s>" or "</s>" the call has raised
\* the ValueError naming the first missing token, and neither start_token_id
\* nor end_token_id holds an id, whatever the tokenizer's state was before.
C1_FailedSetProtoLeavesNoIds ==
    (before # None /\ arg # None /\ LacksRequired(arg[1])) =>
        /\ raised = (IF ~HasPiece(arg[1], "<s>") THEN Some("<s>")
                     ELSE Some("</s>"))
        /\ start_token_id = None
        /\ end_token_id = None

\* C2: start_token_id and end_token_id are None exactly when the tokenizer
\* holds no vocabulary.
C2_IdsNoneIffNoVocabulary ==
    /\ proto = None => (start_token_id = None /\ end_token_id = None)
    /\ proto # None => (start_token_id # None /\ end_token_id # None)

\* C3: after set_proto(V) with V containing "<s>" and "</s>" the call has not
\* raised, V is the held vocabulary, and start_token_id and end_token_id are
\* the ids of "<s>" and "</s>" in V.
C3_IdsAreThoseOfV ==
    (before # None /\ arg # None /\ ~LacksRequired(arg[1])) =>
        /\ raised = None
        /\ proto = arg
        /\ IdIs(arg[1], "<s>", start_token_id)
        /\ IdIs(arg[1], "</s>", end_token_id)

\* A vocabulary was configured over another one in which the required
\* tokens had other ids.
C3_Witness ==
    /\ before # None /\ arg # None /\ ~LacksRequired(arg[1])
    /\ before[1].start_token_id # None
    /\ before[1].start_token_id # start_token_id
    /\ before[1].end_token_id # end_token_id
    /\ start_token_id # Some(0)

\* C4: set_proto(None) raises nothing and leaves start_token_id and
\* end_token_id None, whatever the state before the call.
C4_ClearAlwaysResets ==
    (before # None /\ arg = None) =>
        /\ raised = None
        /\ proto = None
        /\ start_token_id = None
        /\ end_token_id = None

\* The tokenizer was cleared while it held ids, after a failed call.
C4_Witness ==
    /\ before # None /\ arg = None
    /\ before[1].raised # None
    /\ before[1].start_token_id # None
    /\ before[1].end_token_id # None
    /\ start_token_id = None /\ end_token_id = None

(***************************************************************************)
(* Properties of from_preset, under SpecResolver                           *)
(***************************************************************************)

\* The registered strict subclasses of c that declare family f.
Declaring(c, f) ==
    { s \in ClassIds : IsSubclass(s, c) /\ classes[s].backbone_cls = Some(f) }

\* The latest from_preset call was made on a class other than the abstract
\* base, with a preset that can be located.
DetectionRan ==
    /\ result # None
    /\ result[1].cls # RootId
    /\ HasLoader(result[1].preset)

NoMatchRaises ==
    LET r == result[1]
        f == check_backbone_class(r.preset)
    IN  (classes[r.cls].backbone_cls # Some(f) /\ Declaring(r.cls, f) = {}) =>
            (r.outcome = "UnsupportedPresetError" /\ r.instance = None)

\* C5 as stated: a preset whose family exactly one registered subclass of the
\* invoking class declares yields an instance of that subclass; with the
\* invoking class of another family and no subclass declaring the preset's,
\* the call raises and constructs nothing.
C5_OnlyMatchingSubclassIsReturned ==
    DetectionRan =>
        LET r == result[1]
            f == check_backbone_class(r.preset)
        IN  /\ Cardinality(Declaring(r.cls, f)) = 1 =>
                 (r.outcome = "instance" /\ r.instance # None
                    /\ r.instance[1] \in Declaring(r.cls, f))
            /\ NoMatchRaises

\* C5 amended: the subclass is looked for only when the invoking class's own
\* backbone_cls differs from the preset's family; when it equals it, the
\* invoking class itself is instantiated, whatever its subclasses declare.
C5_SubclassDetectedWhenOwnFamilyDiffers ==
    DetectionRan =>
        LET r == result[1]
            f == check_backbone_class(r.preset)
        IN  /\ (classes[r.cls].backbone_cls # Some(f)
                  /\ Cardinality(Declaring(r.cls, f)) = 1) =>
                 (r.outcome = "instance" /\ r.instance # None
                    /\ r.instance[1] \in Declaring(r.cls, f))
            /\ classes[r.cls].backbone_cls = Some(f) =>
                 (r.outcome = "instance" /\ r.instance = Some(r.cls))
            /\ NoMatchRaises

\* A class with no family of its own (a Classifier) that has two subclasses
\* registered below the base resolved a preset to its only subclass of the
\* preset's family.
C5_Witness ==
    /\ DetectionRan
    /\ classes[result[1].cls].backbone_cls = None
    /\ Cardinality(Declaring(result[1].cls,
                             check_backbone_class(result[1].preset))) = 1
    /\ result[1].instance # None
    /\ result[1].instance[1] # result[1].cls
    /\ Len(classes) >= 3

\* C6: from_preset on the abstract base raises the usage error for every
\* preset, before a loader is obtained, before the preset's metadata is read
\* and without constructing anything.
C6_BaseCallFailsFirst ==
    (result # None /\ result[1].cls = RootId) =>
        /\ result[1].outcome = "UsageError"
        /\ ~result[1].loader
        /\ ~result[1].metadata
        /\ result[1].instance = None

\* The abstract base was called with a preset that a registered subclass
\* could have served.
C6_Witness ==
    /\ result # None
    /\ result[1].cls = RootId
    /\ HasLoader(result[1].preset)
    /\ Declaring(RootId, check_backbone_class(result[1].preset)) # {}
    /\ result[1].outcome = "UsageError"

(***************************************************************************)
(* Properties of the `presets` enumeration, under SpecPresets              *)
(***************************************************************************)

\* The mappings a class's enumeration is built from, in the order they are
\* merged: its own presets, its collaborator's, each subclass's enumeration.
SourcesOf(c) ==
    LET collab == IF base = "Task" THEN classes[c].backbone_cls
                  ELSE classes[c].tokenizer_cls
        subs == list_subclasses(c)
    IN  <<own[c]>>
        \o (IF collab = None THEN <<>>
            ELSE IF base = "Task" THEN <<BackbonePresets(collab[1])>>
            ELSE <<TokenizerPresets(collab[1])>>)
        \o [i \in DOMAIN subs |-> presets(subs[i])]

Holding(src, k) == { i \in DOMAIN src : k \in DOMAIN src[i] }

FirstHolding(src, k) ==
    CHOOSE i \in Holding(src, k) : \A j \in Holding(src, k) : i <= j

LastHolding(src, k) ==
    CHOOSE i \in Holding(src, k) : \A j \in Holding(src, k) : j <= i

\* C7 as stated: a key found in several sources keeps the value of the first
\* source that holds it.
C7_FirstInsertionWins ==
    lastRead # None =>
        LET src == SourcesOf(lastRead[1].cls)
        IN  \A k \in DOMAIN lastRead[1].value :
                /\ Holding(src, k) # {}
                /\ lastRead[1].value[k] = src[FirstHolding(src, k)][k]

\* C7 amended: the enumeration holds exactly the keys of its sources, and a
\* key found in several sources has the value of the last source that holds
\* it (a later update overwrites).
C7_LastUpdateWins ==
    lastRead # None =>
        LET src == SourcesOf(lastRead[1].cls)
        IN  /\ DOMAIN lastRead[1].value =
                 UNION { DOMAIN src[i] : i \in DOMAIN src }
            /\ \A k \in DOMAIN lastRead[1].value :
                 lastRead[1].value[k] = src[LastHolding(src, k)][k]

\* An enumeration was read in which two sources hold a key with different
\* values.
C7_Witness ==
    /\ lastRead # None
    /\ LET src == SourcesOf(lastRead[1].cls)
       IN  \E k \in PresetKeys :
             /\ Cardinality(Holding(src, k)) >= 2
             /\ src[FirstHolding(src, k)][k] # src[LastHolding(src, k)][k]
             /\ lastRead[1].value[k] = src[LastHolding(src, k)][k]

\* Reading again yields the same mapping, and the read left every class's
\* registered presets as they were.
ReadIsIdempotent ==
    /\ lastRead[1].value = presets(lastRead[1].cls)
    /\ lastRead[1].registered = own

WellSuffixed(path) ==
    /\ Len(path) >= Len(WEIGHTS_SUFFIX)
    /\ \A i \in DOMAIN WEIGHTS_SUFFIX :
         path[Len(path) - Len(WEIGHTS_SUFFIX) + i] = WEIGHTS_SUFFIX[i]

NothingWritten == steps = <<>> /\ disk = call[1].disk

\* C9: save_task_weights raises for a path without the suffix, with or
\* without task-specific weights, and for a well-suffixed path when the task
\* has no weights outside its backbone; in both cases nothing is written.
C9_SaveTaskWeightsPreconditions ==
    (call # None /\ call[1].op = "save_task_weights") =>
        /\ ~WellSuffixed(call[1].path) =>
             (error = Some(SuffixError) /\ NothingWritten)
        /\ (WellSuffixed(call[1].path) /\ weights \subseteq BackboneWeights) =>
             (error = Some(NothingToSaveError) /\ NothingWritten)
        /\ (WellSuffixed(call[1].path) /\ ~(weights \subseteq BackboneWeights)) =>
             (error = None /\ steps = <<Wrote("task_weights", call[1].path)>>)

\* A path without the suffix was rejected for its suffix although the task
\* has no task-specific weights either.
C9_Witness ==
    /\ call # None /\ call[1].op = "save_task_weights"
    /\ ~WellSuffixed(call[1].path)
    /\ weights \subseteq BackboneWeights
    /\ error = Some(SuffixError)
    /\ disk # {}
    /\ NothingWritten

Kinds(writes) == [i \in DOMAIN writes |-> writes[i].what]

\* C10: save_to_preset with a preprocessor set raises nothing and writes, in
\* this order and all under the directory: the task configuration, the task
\* weights exactly when the task has weights outside its backbone, the
\* preprocessor's files, the backbone's files.
C10_SaveToPresetOrder ==
    (call # None /\ call[1].op = "save_to_preset" /\ preprocessor # None) =>
        /\ error = None
        /\ Kinds(steps) =
             <<"task_config">>
             \o (IF weights \subseteq BackboneWeights THEN <<>>
                 ELSE <<"task_weights">>)
             \o <<"preprocessor_config", "tokenizer_assets">>
             \o <<"backbone_config", "backbone_weights">>
        /\ \A i \in DOMAIN steps :
             SubSeq(steps[i].path, 1, Len(call[1].path) + 1)
                 = call[1].path \o <<"/">>
        /\ disk = call[1].disk \cup RangeOf(steps)

\* A task without task-specific weights was persisted: no task weights file,
\* no error.
C10_Witness ==
    /\ call # None /\ call[1].op = "save_to_preset" /\ preprocessor # None
    /\ weights \subseteq BackboneWeights
    /\ error = None
    /\ Len(steps) >= 5
    /\ \A i \in DOMAIN steps : steps[i].what # "task_weights"

\* A task with a head was persisted with its task weights file.
C10_WitnessWithHead ==
    /\ call # None /\ call[1].op = "save_to_preset" /\ preprocessor # None
    /\ ~(weights \subseteq BackboneWeights)
    /\ Len(steps) >= 2
    /\ steps[2].what = "task_weights"

\* C11: save_to_preset on a task whose preprocessor is unset, from
\* construction or through the setter, raises the ValueError before any
\* persistence step: the call writes nothing.
C11_NoPreprocessorNothingSaved ==
    (call # None /\ call[1].op = "save_to_preset" /\ preprocessor = None) =>
        /\ error = Some(NoPreprocessorError)
        /\ NothingWritten

\* A task with a head that was persisted once had its preprocessor set to
\* None and was refused.
C11_Witness ==
    /\ call # None /\ call[1].op = "save_to_preset" /\ preprocessor = None
    /\ ~(weights \subseteq BackboneWeights)
    /\ \E f \in disk : f.what = "preprocessor_config"
    /\ error = Some(NoPreprocessorError)
    /\ NothingWritten

(***************************************************************************)
(* Properties of the task's weight partition, under SpecWeights            *)
(***************************************************************************)

\* The weight tensors of the task that are not tensors of its backbone.
TaskSpecific == { w \in weights : w \notin BackboneWeights }

\* C12: has_task_weights() returns True exactly when some weight tensor of
\* the task is not, by identity, a weight tensor of its backbone; it returns
\* False for a task built from the backbone alone and True once a head layer
\* with its own weight has been added, whatever values the tensors hold.
C12_HasTaskWeightsByIdentity ==
    (call # None /\ call[1].op = "has_task_weights") =>
        /\ returned = Some(TaskSpecific # {})
        /\ weights = BackboneWeights => returned = Some(FALSE)
        /\ weights \cap HeadWeights # {} => returned = Some(TRUE)

\* The call returned True for a task whose only head weight holds the same
\* value as a backbone weight.
C12_Witness ==
    /\ call # None /\ call[1].op = "has_task_weights"
    /\ returned = Some(TRUE)
    /\ TaskSpecific = {"h1"}
    /\ \E b \in BackboneWeights : values[b] = values["h1"]

\* The call returned False for the task built from the backbone alone.
C12_WitnessNoHead ==
    /\ call # None /\ call[1].op = "has_task_weights"
    /\ returned = Some(FALSE)
    /\ weights = BackboneWeights

\* The latest call was load_task_weights.
Loading == call # None /\ call[1].op = "load_task_weights"

\* The weights whose value the latest load_task_weights call changed.
Changed == { w \in WeightIds : values[w] # call[1].values[w] }

\* C13: load_task_weights leaves every backbone weight with the value it had
\* before the call, whatever the file holds for it and whether or not the
\* call raised; the objects it excludes are the backbone and every layer
\* nested in it; the only weights it changes are task-specific ones; and
\* when it returns without raising, every weight that has_task_weights()
\* counts as task-specific holds the value the file stores for it.
C13_LoadSkipsBackbone ==
    Loading =>
        /\ \A w \in BackboneWeights : values[w] = call[1].values[w]
        /\ backbone_layer_ids = {"backbone", "embed", "encoder"}
        /\ Changed \subseteq TaskSpecific
        /\ (error = None) =>
               \A w \in TaskSpecific :
                   /\ w \in DOMAIN call[1].content
                   /\ values[w] = call[1].content[w]

\* A load returned without raising on a task whose head layer is tied to the
\* backbone's embedding layer, from a file that stores other values for both
\* backbone weights and for the head weight: the head weight took the file's
\* value.
C13_Witness ==
    /\ Loading /\ error = None
    /\ "h1" \in weights
    /\ \A b \in BackboneWeights :
           /\ b \in DOMAIN call[1].content
           /\ call[1].content[b] # call[1].values[b]
    /\ "h1" \in Changed
    /\ values["h1"] = call[1].content["h1"]

====
